---- MODULE Spec2Model ----
(***************************************************************************)
(* Fixed-point inference engine of tejaskannan/ml-models                   *)
(* (src/c_implementation): the scalar kernel and its nonlinear             *)
(* approximations (math/fixed_point_ops.c) and the gated blend, the two    *)
(* GRU cells and the sequence driver (layers/layers.c).                    *)
(*                                                                         *)
(* An int16_t is an integer in -2^15 .. 2^15-1; a conversion of a wider    *)
(* value to int16_t keeps its low 16 bits (Wrap16); an int has 32 bits,    *)
(* as on the host the tests run on.  A division by zero is                 *)
(* undefined behaviour: the build either raises SIGFPE (the call never     *)
(* returns) or yields some quotient; both are modelled.                    *)
(***************************************************************************)
EXTENDS Integers, Sequences, FiniteSets

VARIABLES pc, op, args, ret, divs, heap, step, trace

vars == <<pc, op, args, ret, divs, heap, step, trace>>

(***************************************************************************)
(* Bounds of the model                                                     *)
(***************************************************************************)
\* inputs -MaxSmall .. MaxSmall are all tried, next to the probes below
MaxSmall == 4

\* longest input sequence handed to rnn
MaxSeqLen == 2

\* rows of the hidden state, rows of an input
HiddenSize == 2

InputSize == 1

(***************************************************************************)
(* C integer arithmetic                                                    *)
(***************************************************************************)
Int16Min == -(2^15)

Int16Max == 2^15 - 1

Abs(v) == IF v < 0 THEN -v ELSE v

\* (int16_t) v for an int v: the low 16 bits, two's complement
Wrap16(v) == ((v + 2^15) % 2^16) - 2^15

\* a / b on ints, b # 0: C truncates toward zero
CDiv(a, b) == IF (a >= 0) = (b > 0) THEN Abs(a) \div Abs(b) ELSE -(Abs(a) \div Abs(b))

\* 1 << n
Shl1(n) == 2^n

(***************************************************************************)
(* math/fixed_point_ops.c: the arithmetic kernel                           *)
(***************************************************************************)
fp_add(x, y) == Wrap16(x + y)

fp_sub(x, y) == Wrap16(x - y)

fp_mul(x, y, precision) == Wrap16(CDiv(x * y, Shl1(precision)))

\* a fault to test against: the dividend is not scaled by 2^precision
fp_div_unscaled(x, y, precision, u) == IF y = 0 THEN u ELSE Wrap16(CDiv(x, y))

\* u is the quotient the build yields when y = 0 (undefined behaviour)
fp_div(x, y, precision, u) == IF y = 0 THEN u ELSE Wrap16(CDiv(x * Shl1(precision), y))

fp_neg(x) == Wrap16(-1 * x)

int_to_fp(x, precision) == Wrap16(x * Shl1(precision))

\* fixed_point_ops.h is not part of the sources at hand; 7 is the one value
\* for which test_exp_basic and test_exp_neg pass (86, 233, 95, 43)
POWER_SERIES_TERMS == 7

(***************************************************************************)
(* fp_exp: the power series.  The loop state is st = [acc, fact, result,   *)
(* prev_result, divs], divs being the divisors handed to fp_div so far.    *)
(***************************************************************************)
RECURSIVE fp_exp_loop(_, _, _, _, _)
fp_exp_loop(i, st, x, precision, u) ==
    IF i < POWER_SERIES_TERMS /\ st.prev_result # st.result
    THEN LET acc    == fp_mul(x, st.acc, precision)
             factor == Wrap16(i * Shl1(precision))
             fact   == fp_mul(st.fact, factor, precision)
             term   == fp_div(acc, fact, precision, u)
         IN  fp_exp_loop(i + 1,
                         [acc |-> acc, fact |-> fact,
                          prev_result |-> st.result,
                          result |-> fp_add(term, st.result),
                          divs |-> Append(st.divs, fact)],
                         x, precision, u)
    ELSE st

fp_exp_run(x0, precision, u) ==
    LET should_invert == x0 < 0
        x    == IF x0 < 0 THEN fp_neg(x0) ELSE x0
        init == [acc |-> Wrap16(Shl1(precision)), fact |-> Wrap16(Shl1(precision)),
                 prev_result |-> 0, result |-> Wrap16(Shl1(precision)),
                 divs |-> <<>>]
        fin  == fp_exp_loop(1, init, x, precision, u)
    IN  IF should_invert
        THEN [ret  |-> fp_div(int_to_fp(1, precision), fin.result, precision, u),
              divs |-> Append(fin.divs, fin.result)]
        ELSE [ret |-> fin.result, divs |-> fin.divs]

fp_exp(x, precision, u) == fp_exp_run(x, precision, u).ret

(***************************************************************************)
(* fp_tanh: x (1 + x^2/8) / (1 + x^2/2) on |x|, sign restored, clipped.    *)
(***************************************************************************)
\* a fault to test against: the result is not clipped
fp_tanh_unclipped(result, one) == result

\* the clip of lines 122-130
fp_tanh_clip(result, one) ==
    LET neg_one == fp_neg(one)
    IN  IF result > one THEN one
        ELSE IF result < neg_one THEN neg_one
        ELSE result

fp_tanh_run(x0, precision, u) ==
    LET should_invert_sign == x0 < 0
        x           == IF x0 < 0 THEN fp_neg(x0) ELSE x0
        one_eighth  == Wrap16(Shl1(precision - 3))
        one_half    == Wrap16(Shl1(precision - 1))
        one         == int_to_fp(1, precision)
        x_squared   == fp_mul(x, x, precision)
        numerator   == fp_add(one, fp_mul(x_squared, one_eighth, precision))
        denominator == fp_add(one, fp_mul(x_squared, one_half, precision))
        rational_factor == fp_div(numerator, denominator, precision, u)
        result0     == fp_mul(x, rational_factor, precision)
        result      == IF should_invert_sign THEN fp_neg(result0) ELSE result0
    IN  [ret |-> fp_tanh_clip(result, one), divs |-> <<denominator>>]

fp_tanh(x, precision, u) == fp_tanh_run(x, precision, u).ret

(***************************************************************************)
(* fp_sigmoid: (tanh(|x|/2) + 1) / 2, complemented for x < 0.              *)
(***************************************************************************)
fp_sigmoid_run(x0, precision, u) ==
    LET should_invert_sign == x0 < 0
        x        == IF x0 < 0 THEN fp_neg(x0) ELSE x0
        one      == Wrap16(Shl1(precision))
        one_half == Wrap16(Shl1(precision - 1))
        th       == fp_tanh_run(fp_mul(x, one_half, precision), precision, u)
        result   == fp_mul(fp_add(th.ret, one), one_half, precision)
    IN  [ret  |-> IF should_invert_sign THEN Wrap16(one - result) ELSE result,
         divs |-> th.divs]

fp_sigmoid(x, precision, u) == fp_sigmoid_run(x, precision, u).ret

\* a call divides by zero when one of the divisors it hands to fp_div is 0
DividesByZero(run) == \E k \in 1..Len(run.divs) : run.divs[k] = 0

(***************************************************************************)
(* The heap.  A matrix pointer is an index into heap.mem (0 is NULL_PTR);  *)
(* every allocation gets an index of its own, so that a free of a stale    *)
(* pointer is seen.  errs collects memory errors, frees logs the pointers  *)
(* handed to matrix_free, ub records that a division by zero was executed. *)
(***************************************************************************)
NULL_PTR == 0

EmptyHeap == [mem |-> <<>>, errs |-> {}, frees |-> <<>>, ub |-> FALSE]

\* the sequence <<F(1), ..., F(n)>>
Tabulate(n, F(_)) == SubSeq([k \in 1..n |-> F(k)], 1, n)

Zeros(n) == Tabulate(n, LAMBDA k : 0)

\* a matrix the caller allocated and filled before the call
CallerMatrix(h, rows, cols, data) ==
    [h EXCEPT !.mem = Append(@, [live |-> TRUE, owner |-> "caller", numRows |-> rows,
                                 numCols |-> cols, data |-> data])]

Live(h, ptr) == ptr \in 1..Len(h.mem) /\ h.mem[ptr].live

LiveSet(h) == {a \in 1..Len(h.mem) : h.mem[a].live}

\* dst := data, computed from the matrices reads; all of them must be live
Write(h, dst, reads, data) ==
    [h EXCEPT !.errs = IF \A a \in reads \cup {dst} : Live(h, a) THEN @
                       ELSE @ \cup {"use-after-free"},
              !.mem[dst].data = data]

(***************************************************************************)
(* The matrix primitives (matrix.c, not part of the sources at hand),      *)
(* from their contract: dst := result, dst may alias an operand.           *)
(***************************************************************************)
matrix_allocate(h, rows, cols) ==
    [h EXCEPT !.mem = Append(@, [live |-> TRUE, owner |-> "scratch", numRows |-> rows,
                                 numCols |-> cols, data |-> Zeros(rows * cols)])]

matrix_free(h, ptr) ==
    [h EXCEPT !.errs = @ \cup (IF Live(h, ptr) THEN {} ELSE {"double-free"})
                         \cup (IF ptr \in 1..Len(h.mem) /\ h.mem[ptr].owner = "caller"
                               THEN {"freed-caller-matrix"} ELSE {}),
              !.frees = Append(@, ptr),
              !.mem = IF ptr \in 1..Len(h.mem) THEN [@ EXCEPT ![ptr].live = FALSE] ELSE @]

matrix_set(h, dst, v) == Write(h, dst, {}, Tabulate(Len(h.mem[dst].data), LAMBDA j : v))

matrix_add(h, dst, A, B) ==
    Write(h, dst, {A, B},
          Tabulate(Len(h.mem[A].data), LAMBDA j : fp_add(h.mem[A].data[j], h.mem[B].data[j])))

matrix_hadamard(h, dst, A, B, precision) ==
    Write(h, dst, {A, B},
          Tabulate(Len(h.mem[A].data),
                   LAMBDA j : fp_mul(h.mem[A].data[j], h.mem[B].data[j], precision)))

scalar_product(h, dst, A, v, precision) ==
    Write(h, dst, {A}, Tabulate(Len(h.mem[A].data), LAMBDA j : fp_mul(h.mem[A].data[j], v, precision)))

scalar_add(h, dst, A, v) ==
    Write(h, dst, {A}, Tabulate(Len(h.mem[A].data), LAMBDA j : fp_add(h.mem[A].data[j], v)))

\* sum over k of A[r][k] * B[k][c], accumulated with fp_add
RECURSIVE Dot(_, _, _, _, _, _)
Dot(A, B, r, c, k, precision) ==
    IF k = 0 THEN 0
    ELSE fp_add(Dot(A, B, r, c, k - 1, precision),
                fp_mul(A.data[(r - 1) * A.numCols + k],
                       B.data[(k - 1) * B.numCols + c], precision))

matrix_multiply(h, dst, A, B, precision) ==
    Write(h, dst, {A, B},
          Tabulate(h.mem[A].numRows * h.mem[B].numCols,
                   LAMBDA j : Dot(h.mem[A], h.mem[B], ((j - 1) \div h.mem[B].numCols) + 1,
                                  ((j - 1) % h.mem[B].numCols) + 1, h.mem[A].numCols, precision)))

\* dst := A over B
stack(h, dst, A, B) == Write(h, dst, {A, B}, h.mem[A].data \o h.mem[B].data)

\* the activation is passed by name: &fp_sigmoid or &fp_tanh
Activation(f, x, precision, u) ==
    IF f = "fp_sigmoid" THEN fp_sigmoid_run(x, precision, u) ELSE fp_tanh_run(x, precision, u)

apply_elementwise(h, dst, A, f, precision, u) ==
    [Write(h, dst, {A},
           Tabulate(Len(h.mem[A].data), LAMBDA j : Activation(f, h.mem[A].data[j], precision, u).ret))
     EXCEPT !.ub = @ \/ \E j \in 1..Len(h.mem[A].data) :
                           DividesByZero(Activation(f, h.mem[A].data[j], precision, u))]

(***************************************************************************)
(* layers/layers.c.  Every operation maps the heap at its entry to the     *)
(* heap at its return; the pointer it returns is its result argument.      *)
(* The longer functions are cut at their blank lines into the paragraphs   *)
(* of the source, run one after the other.                                 *)
(***************************************************************************)
\* s1; s2: s1's heap is computed, then handed to the rest
Then(s1, rest(_)) == CHOOSE r \in {rest(x) : x \in {s1}} : TRUE

\* a fault to test against: the complement of the gate weighs first
apply_gate_swapped(h, result, gate, first, second, precision) ==
    LET h1 == matrix_allocate(h, h.mem[gate].numRows, h.mem[gate].numCols)
        opp_gate == Len(h.mem) + 1
        h2 == scalar_product(h1, opp_gate, gate, int_to_fp(-1, precision), precision)
        h3 == scalar_add(h2, opp_gate, opp_gate, int_to_fp(1, precision))
        h4 == matrix_hadamard(h3, opp_gate, first, opp_gate, precision)
        h5 == matrix_hadamard(h4, result, second, gate, precision)
        h6 == matrix_add(h5, result, result, opp_gate)
    IN  matrix_free(h6, opp_gate)

\* a fault to test against: opp_gate is never freed
apply_gate_leak(h, result, gate, first, second, precision) ==
    LET h1 == matrix_allocate(h, h.mem[gate].numRows, h.mem[gate].numCols)
        opp_gate == Len(h.mem) + 1
        h2 == scalar_product(h1, opp_gate, gate, int_to_fp(-1, precision), precision)
        h3 == scalar_add(h2, opp_gate, opp_gate, int_to_fp(1, precision))
        h4 == matrix_hadamard(h3, opp_gate, second, opp_gate, precision)
        h5 == matrix_hadamard(h4, result, first, gate, precision)
    IN  matrix_add(h5, result, result, opp_gate)

\* a fault to test against: result is written before first is read
apply_gate_clobber(h, result, gate, first, second, precision) ==
    LET h1 == matrix_allocate(h, h.mem[gate].numRows, h.mem[gate].numCols)
        opp_gate == Len(h.mem) + 1
        h2 == scalar_product(h1, opp_gate, gate, int_to_fp(-1, precision), precision)
        h3 == scalar_add(h2, opp_gate, opp_gate, int_to_fp(1, precision))
        h4 == matrix_hadamard(h3, result, second, opp_gate, precision)
        h5 == matrix_hadamard(h4, opp_gate, first, gate, precision)
        h6 == matrix_add(h5, result, result, opp_gate)
    IN  matrix_free(h6, opp_gate)

apply_gate(h, result, gate, first, second, precision) ==
    LET h1 == matrix_allocate(h, h.mem[gate].numRows, h.mem[gate].numCols)
        opp_gate == Len(h.mem) + 1
        h2 == scalar_product(h1, opp_gate, gate, int_to_fp(-1, precision), precision)
        h3 == scalar_add(h2, opp_gate, opp_gate, int_to_fp(1, precision))
        h4 == matrix_hadamard(h3, opp_gate, second, opp_gate, precision)
        h5 == matrix_hadamard(h4, result, first, gate, precision)
        h6 == matrix_add(h5, result, result, opp_gate)
    IN  matrix_free(h6, opp_gate)

\* lines 37-42: the six intermediate matrices, in the order of their allocation
gru_locals(h) ==
    [update |-> Len(h.mem) + 1, reset |-> Len(h.mem) + 2, candidate |-> Len(h.mem) + 3,
     inputUpdate |-> Len(h.mem) + 4, inputReset |-> Len(h.mem) + 5,
     inputCandidate |-> Len(h.mem) + 6]

gru_allocate(h, state) ==
    LET rows == h.mem[state].numRows
        cols == h.mem[state].numCols
    IN  matrix_allocate(matrix_allocate(matrix_allocate(matrix_allocate(matrix_allocate(
            matrix_allocate(h, rows, cols), rows, cols), rows, cols), rows, cols),
            rows, cols), rows, cols)

\* lines 44-49: create the update state
gru_update(h, L, input, state, gru, precision, u) ==
    LET u1 == matrix_multiply(h, L.inputUpdate, gru.uUpdate, input, precision)
        u2 == matrix_multiply(u1, L.update, gru.wUpdate, state, precision)
        u3 == matrix_add(u2, L.update, L.update, L.inputUpdate)
        u4 == matrix_add(u3, L.update, L.update, gru.bUpdate)
    IN  apply_elementwise(u4, L.update, L.update, "fp_sigmoid", precision, u)

\* lines 51-57: create the reset state
gru_reset(h, L, input, state, gru, precision, u) ==
    LET r1 == matrix_multiply(h, L.inputReset, gru.uReset, input, precision)
        r2 == matrix_multiply(r1, L.reset, gru.wReset, state, precision)
        r3 == matrix_add(r2, L.reset, L.reset, L.inputReset)
        r4 == matrix_add(r3, L.reset, L.reset, gru.bReset)
        r5 == apply_elementwise(r4, L.reset, L.reset, "fp_sigmoid", precision, u)
    IN  matrix_hadamard(r5, L.reset, state, L.reset, precision)

\* lines 59-64: create the candidate state
gru_candidate(h, L, input, gru, precision, u) ==
    LET c1 == matrix_multiply(h, L.inputCandidate, gru.uCandidate, input, precision)
        c2 == matrix_multiply(c1, L.candidate, gru.wCandidate, L.reset, precision)
        c3 == matrix_add(c2, L.candidate, L.candidate, L.inputCandidate)
        c4 == matrix_add(c3, L.candidate, L.candidate, gru.bCandidate)
    IN  apply_elementwise(c4, L.candidate, L.candidate, "fp_tanh", precision, u)

\* lines 69-75: free intermediate states
gru_free(h, L) ==
    matrix_free(matrix_free(matrix_free(matrix_free(matrix_free(matrix_free(
        h, L.inputUpdate), L.inputReset), L.inputCandidate), L.update), L.reset),
        L.candidate)

apply_gru(h, result, input, state, gru, precision, u) ==
    Then(gru_allocate(h, state), LAMBDA h1 :
    Then(gru_update(h1, gru_locals(h), input, state, gru, precision, u), LAMBDA h2 :
    Then(gru_reset(h2, gru_locals(h), input, state, gru, precision, u), LAMBDA h3 :
    Then(gru_candidate(h3, gru_locals(h), input, gru, precision, u), LAMBDA h4 :
    Then(apply_gate(h4, result, gru_locals(h).update, state, gru_locals(h).candidate,
                    precision), LAMBDA h5 :
         gru_free(h5, gru_locals(h)))))))

\* lines 85-89: the five intermediate matrices, in the order of their allocation
tf_gru_locals(h) ==
    [stacked |-> Len(h.mem) + 1, gates |-> Len(h.mem) + 2, candidate |-> Len(h.mem) + 3,
     update |-> Len(h.mem) + 4, reset |-> Len(h.mem) + 5]

tf_gru_allocate(h, input, state) ==
    LET rows == h.mem[state].numRows
        cols == h.mem[state].numCols
    IN  matrix_allocate(matrix_allocate(matrix_allocate(matrix_allocate(
            matrix_allocate(h, h.mem[input].numRows + rows, cols),
            rows * 2, cols), rows, cols), rows, cols), rows, cols)

\* lines 91-95: create the gates
tf_gru_gates(h, L, input, state, gru, precision, u) ==
    LET g1 == stack(h, L.stacked, input, state)
        g2 == matrix_multiply(g1, L.gates, gru.wGates, L.stacked, precision)
        g3 == matrix_add(g2, L.gates, L.gates, gru.bGates)
    IN  apply_elementwise(g3, L.gates, L.gates, "fp_sigmoid", precision, u)

\* lines 97-106: rows [0, numRows) of gates go to reset, the rest to update
tf_gru_split(h, L, state) ==
    LET n  == h.mem[state].numRows
        gd == h.mem[L.gates].data
        h1 == Write(h, L.reset, {L.gates},
                    Tabulate(Len(h.mem[L.reset].data),
                             LAMBDA j : IF j <= n THEN gd[j] ELSE h.mem[L.reset].data[j]))
    IN  Write(h1, L.update, {L.gates},
              Tabulate(Len(h.mem[L.update].data),
                       LAMBDA j : IF j <= h.mem[L.gates].numRows - n THEN gd[n + j]
                                  ELSE h.mem[L.update].data[j]))

\* lines 108-114: create the candidate state
tf_gru_candidate(h, L, input, state, gru, precision, u) ==
    LET c1 == matrix_hadamard(h, L.reset, state, L.reset, precision)
        c2 == stack(c1, L.stacked, input, L.reset)
        c3 == matrix_multiply(c2, L.candidate, gru.wCandidates, L.stacked, precision)
        c4 == matrix_add(c3, L.candidate, L.candidate, gru.bCandidates)
    IN  apply_elementwise(c4, L.candidate, L.candidate, "fp_tanh", precision, u)

\* lines 119-124: free intermediate states
tf_gru_free(h, L) ==
    matrix_free(matrix_free(matrix_free(matrix_free(matrix_free(
        h, L.update), L.reset), L.candidate), L.stacked), L.gates)

apply_tf_gru(h, result, input, state, gru, precision, u) ==
    Then(tf_gru_allocate(h, input, state), LAMBDA h1 :
    Then(tf_gru_gates(h1, tf_gru_locals(h), input, state, gru, precision, u), LAMBDA h2 :
    Then(tf_gru_split(h2, tf_gru_locals(h), state), LAMBDA h3 :
    Then(tf_gru_candidate(h3, tf_gru_locals(h), input, state, gru, precision, u), LAMBDA h4 :
    Then(apply_gate(h4, result, tf_gru_locals(h).update, state, tf_gru_locals(h).candidate,
                    precision), LAMBDA h5 :
         tf_gru_free(h5, tf_gru_locals(h)))))))

(***************************************************************************)
(* Inputs                                                                  *)
(***************************************************************************)
\* the precisions of the claims: one_eighth = 1 << (precision - 3) needs
\* precision >= 3, and 1 << 14 is the largest power of two below 2^15
Precisions == 3..14

\* quotients a build may yield for a division by zero (0 on ARM's SDIV, all
\* ones or an extreme from a software divide); SIGFPE is the other outcome
DivZeroQuotients == {Int16Min, -1, 0, 1, Int16Max}

\* the outcomes of a call: they differ only if it divides by zero (whether it
\* does is decided before the first such quotient is used)
Quotients(dividesByZero) == IF dividesByZero THEN DivZeroQuotients ELSE {0}

Traps(dividesByZero) == IF dividesByZero THEN BOOLEAN ELSE {FALSE}

PowersOfTwo == {2^k : k \in 0..14}

Extremes == {Int16Min, Int16Min + 1, Int16Max - 1, Int16Max}

\* |x| at which fp_tanh's denominator wraps to 0 for some precision
TanhProbes == {4222, 8444, 2046, 4095, 4092, 8190, 16383, 8184, 16380, 30922,
               32766, 16368, 32760, 8063, 16126, 25743}

\* |x| that fp_sigmoid halves to one of the above
SigmoidProbes == {8445, 16889, 8191, 32767, 32761, 32737, 16127, 32253}

\* x for which fp_exp's series sums to 0, or its factorial wraps to 0
ExpProbes == {6366, 1381, 21289, 14402, 1181, 512, 820}

Magnitudes == (0..MaxSmall) \cup PowersOfTwo \cup TanhProbes \cup SigmoidProbes \cup ExpProbes

ScalarInputs == Magnitudes \cup {-m : m \in Magnitudes} \cup Extremes

\* operands of the fp_mul / fp_div round trip
MulDivInputs == (-MaxSmall..MaxSmall) \cup {2^k : k \in {3, 5, 8, 11, 14}}
                \cup {-(2^k) : k \in {3, 5, 8, 11, 14}} \cup {100, -100, 181, -181, 12345, -12345}
                \cup Extremes

MulDivPrecisions == 0..14

(***************************************************************************)
(* Inputs of the layers: vectors and weight matrices whose entries         *)
(* alternate between two values, drawn per precision from values around    *)
(* 1.0 = 2^precision and from the ends of the int16_t range.               *)
(***************************************************************************)
Alt(n, pair) == Tabulate(n, LAMBDA j : IF j % 2 = 1 THEN pair[1] ELSE pair[2])

One(p) == 2^p

StatePairs(p) == {<<0, 0>>, <<One(p), -One(p)>>, <<One(p) \div 2, 7>>, <<Int16Max, Int16Min>>}

InputPairs(p) == {<<One(p), -One(p)>>, <<Int16Max, 3>>}

GatePairs(p) == {0, One(p) \div 2, One(p)} \X {0, One(p) \div 2, One(p)}

\* what a result buffer of its own holds before the call
Garbage == <<12345, -1>>

\* the inputs of n time steps: x0 first, then the other pair, in turns
InputSeq(p, x0, n) ==
    Tabulate(n, LAMBDA k : IF k % 2 = 1 THEN x0 ELSE CHOOSE y \in InputPairs(p) : y # x0)

\* seeds of the parameters: w hidden-to-hidden, u input-to-hidden, b biases
ParamSeeds(p) ==
    { [w |-> <<One(p), -One(p)>>,      u |-> <<One(p), One(p) \div 2>>, b |-> <<0, 0>>],
      [w |-> <<One(p) \div 2, One(p)>>, u |-> <<-One(p), One(p)>>,       b |-> <<One(p), -One(p)>>],
      [w |-> <<Int16Max, Int16Min>>,   u |-> <<Int16Max, Int16Max>>,    b |-> <<Int16Max, Int16Min>>],
      [w |-> <<0, 0>>,                 u |-> <<0, 0>>,                  b |-> <<Int16Max, Int16Min>>],
      [w |-> <<0, 0>>,                 u |-> <<0, 0>>,                  b |-> <<4222, 8444>>],
      [w |-> <<3, -One(p)>>,           u |-> <<One(p), 5>>,             b |-> <<-3, 16380>>] }

Swap(pair) == <<pair[2], pair[1]>>

Negate(pair) == <<pair[1], fp_neg(pair[2])>>

\* struct GRU: the heap with its nine matrices appended, and their pointers
BuildGru(h, s) ==
    LET H == HiddenSize
        D == InputSize
        m1 == CallerMatrix(h,  H, D, Alt(H * D, s.u))
        m2 == CallerMatrix(m1, H, D, Alt(H * D, Swap(s.u)))
        m3 == CallerMatrix(m2, H, D, Alt(H * D, Negate(s.u)))
        m4 == CallerMatrix(m3, H, H, Alt(H * H, s.w))
        m5 == CallerMatrix(m4, H, H, Alt(H * H, Swap(s.w)))
        m6 == CallerMatrix(m5, H, H, Alt(H * H, Negate(s.w)))
        m7 == CallerMatrix(m6, H, 1, Alt(H, s.b))
        m8 == CallerMatrix(m7, H, 1, Alt(H, Swap(s.b)))
        m9 == CallerMatrix(m8, H, 1, Alt(H, Negate(s.b)))
        n  == Len(h.mem)
    IN  [heap |-> m9,
         cell |-> [uUpdate |-> n + 1, uReset |-> n + 2, uCandidate |-> n + 3,
                   wUpdate |-> n + 4, wReset |-> n + 5, wCandidate |-> n + 6,
                   bUpdate |-> n + 7, bReset |-> n + 8, bCandidate |-> n + 9]]

\* struct TFGRU: wGates (2H x (D+H)), bGates, wCandidates (H x (D+H)), bCandidates
BuildTfGru(h, s) ==
    LET H == HiddenSize
        D == InputSize
        m1 == CallerMatrix(h,  2 * H, D + H, Alt(2 * H * (D + H), s.w))
        m2 == CallerMatrix(m1, 2 * H, 1, Alt(2 * H, s.b))
        m3 == CallerMatrix(m2, H, D + H, Alt(H * (D + H), s.u))
        m4 == CallerMatrix(m3, H, 1, Alt(H, Negate(s.b)))
        n  == Len(h.mem)
    IN  [heap |-> m4,
         cell |-> [wGates |-> n + 1, bGates |-> n + 2, wCandidates |-> n + 3,
                   bCandidates |-> n + 4]]

BuildCell(cellType, h, s) == IF cellType = "GRUCell" THEN BuildGru(h, s) ELSE BuildTfGru(h, s)

\* enum CellType, and a tag that is neither of its members
CellTypes == {"GRUCell", "TFGRUCell"}

CellTags == CellTypes \cup {"Unknown"}

\* one step of the cell the tag names
CellStep(cellType, h, result, input, state, cell, precision, u) ==
    IF cellType = "GRUCell"
    THEN apply_gru(h, result, input, state, cell, precision, u)
    ELSE apply_tf_gru(h, result, input, state, cell, precision, u)

(***************************************************************************)
(* State machine: one call at a time, from idle to its return (or trap).   *)
(***************************************************************************)
NoArgs == [none |-> TRUE]

NoHeap == [none |-> TRUE]

Init ==
    /\ pc = "idle"
    /\ op = "none"
    /\ args = NoArgs
    /\ ret = 0
    /\ divs = <<>>
    /\ heap = NoHeap
    /\ step = 0
    /\ trace = <<>>

\* a scalar call: returns run.ret, or is killed by SIGFPE at a zero divisor
ScalarCall(name, a, run, trap) ==
    /\ op' = name
    /\ args' = a
    /\ divs' = run.divs
    /\ IF DividesByZero(run) /\ trap
       THEN pc' = "trap" /\ ret' = 0
       ELSE pc' = "ret" /\ ret' = run.ret
    /\ UNCHANGED <<heap, step, trace>>

CallTanh ==
    /\ pc = "idle"
    /\ \E x \in ScalarInputs, p \in Precisions :
       \E u \in Quotients(DividesByZero(fp_tanh_run(x, p, 0))),
          trap \in Traps(DividesByZero(fp_tanh_run(x, p, 0))) :
            ScalarCall("fp_tanh", [x |-> x, precision |-> p], fp_tanh_run(x, p, u), trap)

CallSigmoid ==
    /\ pc = "idle"
    /\ \E x \in ScalarInputs, p \in Precisions :
       \E u \in Quotients(DividesByZero(fp_sigmoid_run(x, p, 0))),
          trap \in Traps(DividesByZero(fp_sigmoid_run(x, p, 0))) :
            ScalarCall("fp_sigmoid", [x |-> x, precision |-> p], fp_sigmoid_run(x, p, u), trap)

CallExp ==
    /\ pc = "idle"
    /\ \E x \in ScalarInputs, p \in Precisions :
       \E u \in Quotients(DividesByZero(fp_exp_run(x, p, 0))),
          trap \in Traps(DividesByZero(fp_exp_run(x, p, 0))) :
            ScalarCall("fp_exp", [x |-> x, precision |-> p], fp_exp_run(x, p, u), trap)

\* fp_sigmoid(x, p) + fp_sigmoid(fp_neg(x), p), as an int; both calls run on
\* the same build
CallSigmoidPair ==
    /\ pc = "idle"
    /\ \E x \in ScalarInputs, p \in Precisions :
       \E u \in Quotients(DividesByZero(fp_sigmoid_run(x, p, 0))),
          trap \in Traps(DividesByZero(fp_sigmoid_run(x, p, 0))) :
            ScalarCall("fp_sigmoid_pair", [x |-> x, precision |-> p],
                       [ret  |-> fp_sigmoid(x, p, u) + fp_sigmoid(fp_neg(x), p, u),
                        divs |-> fp_sigmoid_run(x, p, u).divs
                                 \o fp_sigmoid_run(fp_neg(x), p, u).divs],
                       trap)

\* fp_div(fp_mul(x, y, p), y, p) with y # 0
CallMulDiv ==
    /\ pc = "idle"
    /\ \E x \in MulDivInputs, y \in MulDivInputs \ {0}, p \in MulDivPrecisions :
        ScalarCall("fp_div_mul", [x |-> x, y |-> y, precision |-> p],
                   [ret |-> fp_div(fp_mul(x, y, p), y, p, 0), divs |-> <<y>>], FALSE)

(***************************************************************************)
(* apply_gate, called on its own.  result is first itself (in place) or a  *)
(* buffer of its own.                                                      *)
(***************************************************************************)
CallGate ==
    /\ pc = "idle"
    /\ \E p \in Precisions, inPlace \in BOOLEAN :
       \E g \in GatePairs(p), f \in StatePairs(p), c \in StatePairs(p) :
          LET H  == HiddenSize
              m1 == CallerMatrix(EmptyHeap, H, 1, Alt(H, g))
              m2 == CallerMatrix(m1, H, 1, Alt(H, f))
              m3 == CallerMatrix(m2, H, 1, Alt(H, c))
              h0 == CallerMatrix(m3, H, 1, Alt(H, Garbage))
              result == IF inPlace THEN 2 ELSE 4
          IN  /\ op' = "apply_gate"
              /\ args' = [precision |-> p, inPlace |-> inPlace, h0 |-> h0,
                          gate |-> 1, first |-> 2, second |-> 3, buffer |-> 4]
              /\ heap' = apply_gate(h0, result, 1, 2, 3, p)
              /\ ret' = result
              /\ pc' = "ret"
              /\ UNCHANGED <<divs, step, trace>>

(***************************************************************************)
(* apply_gru / apply_tf_gru, called on their own: one time step.           *)
(***************************************************************************)
CallCell ==
    /\ pc = "idle"
    /\ \E cellType \in CellTypes, p \in Precisions, inPlace \in BOOLEAN :
       \E hp \in StatePairs(p), x \in InputPairs(p), s \in ParamSeeds(p) :
          LET m1 == CallerMatrix(EmptyHeap, HiddenSize, 1, Alt(HiddenSize, hp))
              m2 == CallerMatrix(m1, InputSize, 1, Alt(InputSize, x))
              m3 == CallerMatrix(m2, HiddenSize, 1, Alt(HiddenSize, Garbage))
              b  == BuildCell(cellType, m3, s)
              result == IF inPlace THEN 1 ELSE 3
              h1(u) == CellStep(cellType, b.heap, result, 2, 1, b.cell, p, u)
          IN  \E u \in Quotients(h1(0).ub), trap \in Traps(h1(0).ub) :
              /\ op' = IF cellType = "GRUCell" THEN "apply_gru" ELSE "apply_tf_gru"
              /\ args' = [cellType |-> cellType, precision |-> p, inPlace |-> inPlace,
                          h0 |-> b.heap, state |-> 1, input |-> 2, buffer |-> 3,
                          cell |-> b.cell, u |-> u]
              /\ IF trap
                 THEN pc' = "trap" /\ heap' = b.heap /\ ret' = NULL_PTR
                 ELSE pc' = "ret" /\ heap' = h1(u) /\ ret' = result
              /\ UNCHANGED <<divs, step, trace>>

\* a fault to test against: the state keeps what the result buffer held
rnn_init_skipped(h, state) == h

\* lines 135-136: the state starts as all zeros
rnn_init(h, state) == matrix_set(h, state, 0)

(***************************************************************************)
(* rnn.  CallRnn is lines 135-138 (state = result, matrix_set, i = 0),     *)
(* RnnIterate one pass of the loop body, RnnReturn the loop's exit.        *)
(***************************************************************************)
CallRnn ==
    /\ pc = "idle"
    /\ \E cellType \in CellTags, seqLength \in -1..MaxSeqLen, p \in Precisions :
       \E s \in ParamSeeds(p), x0 \in InputPairs(p) :
          LET xs == InputSeq(p, x0, IF seqLength < 0 THEN 0 ELSE seqLength)
              m1 == CallerMatrix(EmptyHeap, HiddenSize, 1, Alt(HiddenSize, Garbage))
              RECURSIVE AddInputs(_, _)
              AddInputs(h, k) ==
                  IF k > Len(xs) THEN h
                  ELSE AddInputs(CallerMatrix(h, InputSize, 1, Alt(InputSize, xs[k])), k + 1)
              m2 == AddInputs(m1, 1)
              b  == BuildCell(cellType, m2, s)
              result == 1
              state  == result
          IN  /\ op' = "rnn"
              /\ args' = [cellType |-> cellType, seqLength |-> seqLength, precision |-> p,
                          h0 |-> b.heap, result |-> result,
                          inputs |-> Tabulate(Len(xs), LAMBDA k : 1 + k), cell |-> b.cell]
              /\ heap' = rnn_init(b.heap, state)
              /\ ret' = state
              /\ step' = 0
              /\ trace' = <<>>
              /\ pc' = "rnn_loop"
              /\ UNCHANGED divs

RnnIterate ==
    /\ pc = "rnn_loop"
    /\ step < args.seqLength
    /\ LET state == ret
           input == args.inputs[step + 1]
       IN  IF args.cellType \in CellTypes
           THEN LET h1(u) == CellStep(args.cellType, heap, state, input, state,
                                      args.cell, args.precision, u)
                IN  \E u \in Quotients(h1(0).ub), trap \in Traps(h1(0).ub) :
                      IF trap
                      THEN pc' = "trap" /\ UNCHANGED <<heap, ret, step, trace>>
                      ELSE /\ heap' = h1(u)
                           /\ ret' = state
                           /\ step' = step + 1
                           /\ trace' = Append(trace, [i |-> step, input |-> input, u |-> u,
                                                      before |-> heap.mem[state].data,
                                                      after |-> heap'.mem[state].data])
                           /\ pc' = "rnn_loop"
           ELSE pc' = "ret" /\ ret' = NULL_PTR /\ UNCHANGED <<heap, step, trace>>
    /\ UNCHANGED <<op, args, divs>>

RnnReturn ==
    /\ pc = "rnn_loop"
    /\ ~(step < args.seqLength)
    /\ pc' = "ret"
    /\ UNCHANGED <<op, args, ret, divs, heap, step, trace>>

\* the caller takes the result; the next call starts from idle
Reset ==
    /\ pc \in {"ret", "trap"}
    /\ pc' = "idle"
    /\ op' = "none"
    /\ args' = NoArgs
    /\ ret' = 0
    /\ divs' = <<>>
    /\ heap' = NoHeap
    /\ step' = 0
    /\ trace' = <<>>

Next ==
    \/ CallTanh
    \/ CallSigmoid
    \/ CallExp
    \/ CallSigmoidPair
    \/ CallMulDiv
    \/ CallGate
    \/ CallCell
    \/ CallRnn
    \/ RnnIterate
    \/ RnnReturn
    \/ Reset

Spec == Init /\ [][Next]_vars

(***************************************************************************)
(* Properties                                                              *)
(***************************************************************************)
CellOps == {"apply_gru", "apply_tf_gru"}

LayerOps == {"apply_gate", "rnn"} \cup CellOps

\* v is in [-1.0, 1.0] at precision p
InUnit(v, p) == -(2^p) <= v /\ v <= 2^p

AllEqual(data, v) == \A j \in 1..Len(data) : data[j] = v

\* how often ptr was handed to matrix_free
Freed(h, ptr) == Cardinality({k \in 1..Len(h.frees) : h.frees[k] = ptr})

\* the hidden state after the first k steps of the running rnn call, each step
\* computed on its own from the heap the call was entered with
RECURSIVE FoldCell(_)
FoldCell(k) ==
    IF k = 0 THEN Zeros(Len(args.h0.mem[args.result].data))
    ELSE CellStep(args.cellType,
                  [args.h0 EXCEPT !.mem[args.result].data = FoldCell(k - 1)],
                  args.result, args.inputs[k], args.result, args.cell, args.precision,
                  trace[k].u).mem[args.result].data

\* C1: a call of rnn with a cellType that is neither GRUCell nor TFGRUCell
\* returns the null sentinel, whatever seqLength is (0 and negative included).
C1_UnknownCellReturnsNull ==
    (pc = "ret" /\ op = "rnn" /\ args.cellType \notin CellTypes) => ret = NULL_PTR

\* C1: the call that does not: no time step, so the tag is never looked at
C1_UnknownCellReturnsState ==
    /\ pc = "ret" /\ op = "rnn"
    /\ args.cellType \notin CellTypes
    /\ args.seqLength = 0
    /\ ret = args.result

\* C2: for a recognized cell type and seqLength T >= 0, rnn returns its result
\* buffer holding the fold of the cell step over inputs[0], ..., inputs[T-1]
\* in that order, started from the all-zero state whatever the buffer held
\* before; for T = 0 that is all zeros.
C2_RnnIsFoldFromZero ==
    (pc = "ret" /\ op = "rnn" /\ args.cellType \in CellTypes /\ args.seqLength >= 0) =>
        /\ ret = args.result
        /\ Len(trace) = args.seqLength
        /\ \A k \in 1..Len(trace) : trace[k].i = k - 1 /\ trace[k].input = args.inputs[k]
        /\ heap.mem[ret].data = FoldCell(args.seqLength)

C2_Witness ==
    /\ pc = "ret" /\ op = "rnn"
    /\ args.cellType \in CellTypes
    /\ args.seqLength = 2
    /\ ~AllEqual(args.h0.mem[args.result].data, 0)
    /\ args.h0.mem[args.inputs[1]].data # args.h0.mem[args.inputs[2]].data
    /\ trace[1].after # trace[2].after
    /\ ~AllEqual(heap.mem[ret].data, 0)

\* C3: apply_gate with every gate element 2^p returns first (the previous
\* state) elementwise, and with every gate element 0 returns second (the
\* candidate) elementwise, for every precision 3..14.
C3_GateEnds ==
    (pc = "ret" /\ op = "apply_gate") =>
        /\ AllEqual(args.h0.mem[args.gate].data, 2^args.precision)
              => heap.mem[ret].data = args.h0.mem[args.first].data
        /\ AllEqual(args.h0.mem[args.gate].data, 0)
              => heap.mem[ret].data = args.h0.mem[args.second].data

C3_Witness ==
    /\ pc = "ret" /\ op = "apply_gate"
    /\ args.precision = 14
    /\ AllEqual(args.h0.mem[args.gate].data, 2^14)
    /\ args.h0.mem[args.first].data = <<Int16Max, Int16Min>>
    /\ args.h0.mem[args.second].data = <<2^14, -(2^14)>>
    /\ heap.mem[ret].data = <<Int16Max, Int16Min>>

\* C4: when apply_gate, apply_gru, apply_tf_gru or rnn has returned, no matrix
\* was read or written after its free, every scratch matrix of the call was
\* freed exactly once, no matrix of the caller was freed, and the live
\* matrices are those that were live at the call.
C4_ScratchFreedOnce ==
    (pc = "ret" /\ op \in LayerOps) =>
        /\ heap.errs = {}
        /\ LiveSet(heap) = LiveSet(args.h0)
        /\ \A k \in 1..Len(heap.frees) : heap.frees[k] \in 1..Len(heap.mem)
        /\ \A a \in 1..Len(heap.mem) :
              Freed(heap, a) = IF heap.mem[a].owner = "scratch" THEN 1 ELSE 0

C4_Witness ==
    /\ pc = "ret" /\ op = "rnn"
    /\ args.cellType = "TFGRUCell"
    /\ args.seqLength = 2
    /\ Len(heap.frees) = 12
    /\ Len(heap.mem) = Len(args.h0.mem) + 12

\* C5: apply_gru and apply_tf_gru called with the state matrix as result
\* buffer leave in it the values a call with a result buffer of its own
\* produces.
C5_InPlaceEqualsDistinct ==
    (pc = "ret" /\ op \in CellOps /\ args.inPlace) =>
        heap.mem[args.state].data =
            CellStep(args.cellType, args.h0, args.buffer, args.input, args.state,
                     args.cell, args.precision, args.u).mem[args.buffer].data

C5_Witness ==
    /\ pc = "ret" /\ op \in CellOps
    /\ args.inPlace
    /\ ret = args.state
    /\ heap.mem[args.state].data # args.h0.mem[args.state].data
    /\ \A j \in 1..HiddenSize : heap.mem[args.state].data[j] \notin {0, 2^args.precision, -(2^args.precision)}

\* C6: for every 16-bit x and every precision 3..14, fp_tanh(x, p) returns a
\* value in [-2^p, 2^p].
C6_TanhReturnsInUnit ==
    op = "fp_tanh" => (pc = "ret" /\ InUnit(ret, args.precision))

\* C6: the call that returns nothing: its denominator wraps to 0 and the
\* division raises SIGFPE
C6_TanhTraps ==
    /\ pc = "trap" /\ op = "fp_tanh"
    /\ args.x = 4222 /\ args.precision = 4
    /\ divs = <<0>>

\* C7: for every 16-bit x and every precision 3..14,
\* fp_sigmoid(x, p) + fp_sigmoid(fp_neg(x), p) = 2^p, and fp_sigmoid(0, p) = 2^(p-1).
C7_SigmoidComplement ==
    /\ (pc = "ret" /\ op = "fp_sigmoid_pair") => ret = 2^args.precision
    /\ (pc = "ret" /\ op = "fp_sigmoid" /\ args.x = 0) => ret = 2^(args.precision - 1)

\* C7: x = -32768 is its own fp_neg, and fp_sigmoid(-32768, p) is 1.0
C7_SigmoidOfMostNegative ==
    /\ pc = "ret" /\ op = "fp_sigmoid_pair"
    /\ args.x = Int16Min
    /\ ret = 2 * 2^args.precision

\* C8 as stated: for every x, every y # 0 and every precision,
\* fp_div(fp_mul(x, y, p), y, p) differs from x by at most 1.
C8_RoundTripWithinOne ==
    (pc = "ret" /\ op = "fp_div_mul") => Abs(ret - args.x) <= 1

\* the product of fp_mul fits 16 bits
MulFits(x, y, p) == CDiv(x * y, 2^p) \in Int16Min..Int16Max

\* the least n with n * |y| >= 2^p
UlpsLost(y, p) == (2^p + Abs(y) - 1) \div Abs(y)

\* C8: for 0 <= p <= 14, y # 0 and a product x * y / 2^p that fits 16 bits,
\* fp_div(fp_mul(x, y, p), y, p) differs from x by at most ceil(2^p / |y|):
\* by at most 1 when |y| >= 2^p (|y| is at least 1.0).
C8_RoundTripWithinUlpsLost ==
    (pc = "ret" /\ op = "fp_div_mul" /\ MulFits(args.x, args.y, args.precision)) =>
        /\ Abs(ret - args.x) <= UlpsLost(args.y, args.precision)
        /\ Abs(args.y) >= 2^args.precision => Abs(ret - args.x) <= 1

C8_Witness ==
    /\ pc = "ret" /\ op = "fp_div_mul"
    /\ MulFits(args.x, args.y, args.precision)
    /\ args.precision = 8
    /\ Abs(args.y) > 2^8
    /\ Abs(ret - args.x) = 1

\* C9: during a call of rnn with a recognized cell type and a precision
\* 3..13, every element of the hidden state is in [-2^p, 2^p] before the
\* first and after every time step.
C9_HiddenStateInUnit ==
    (op = "rnn" /\ args.cellType \in CellTypes /\ args.precision <= 13) =>
        \A j \in 1..Len(heap.mem[ret].data) : InUnit(heap.mem[ret].data[j], args.precision)

C9_Witness ==
    /\ op = "rnn" /\ args.cellType \in CellTypes
    /\ args.precision = 13
    /\ step = 2
    /\ \E j \in 1..HiddenSize : Abs(heap.mem[ret].data[j]) = 2^13
    /\ \E j \in 1..HiddenSize : Abs(heap.mem[ret].data[j]) \notin {0, 2^13}

\* C10: for every 16-bit x and every precision 3..14, no fp_div called inside
\* fp_exp, fp_tanh or fp_sigmoid has the divisor 0.
C10_NoZeroDivisor ==
    op \in {"fp_exp", "fp_tanh", "fp_sigmoid"} => \A k \in 1..Len(divs) : divs[k] # 0

\* C10: fp_exp's factorial wraps to 0 in the series (x = 512 at precision 13)
C10_FactorialWrapsToZero ==
    /\ op = "fp_exp"
    /\ args.x = 512 /\ args.precision = 13
    /\ \E k \in 1..Len(divs) : divs[k] = 0

====
